---- MODULE Spec2Model ----
(***************************************************************************)
(* Topology generator (generate_topology.py) and topology validator        *)
(* (validate_topology.py) of OSPF2-LL-JSON, as two batch processes that    *)
(* share one file: the generator reads input_file and writes output_file,  *)
(* the validator reads output_file and writes it back.                     *)
(*                                                                         *)
(* A JSON object is a record whose DOMAIN is its key set, so that          *)
(* `field in link` is  field \in DOMAIN link.  A JSON list is a sequence.  *)
(* A string that the code parses or formats (an interface name) is a       *)
(* sequence of tokens; a string that is only compared (a node id) is a     *)
(* TLA+ string.                                                            *)
(***************************************************************************)
EXTENDS Integers, Sequences, FiniteSets, TLC

VARIABLES
    input_file,          \* document stored at the generator's input path
    output_file,         \* document stored at the shared output path
    g_pc,                \* generator: position in the script
    g_data,              \* generator: data (the loaded document)
    interface_counters,  \* generator: node id -> last interface index used
    new_countries_config,\* generator: group tag -> node count
    target_total,        \* generator: target number of nodes
    new_nodes,           \* generator: nodes generated so far
    new_links,           \* generator: links generated so far
    country_nodes,       \* generator: group tag -> ids of its nodes
    g_c,                 \* generator: index of the group being processed
    g_i,                 \* generator: iteration inside the current loop
    origin,              \* history: for each new link, the step that made it
    rnd,                 \* number of random draws that left the first candidate
    v_pc,                \* validator: position in the script
    v_data,              \* validator: data (the loaded document)
    neighbor_counts,     \* validator: node id -> degree
    zaf_report,          \* validator: printed ZAF requirement line
    missing_fields,      \* validator: list of missing-field issues
    isolated,            \* validator: list of isolated node ids
    v_run                \* number of validator runs started

fvars == <<input_file, output_file>>
gvars == <<g_pc, g_data, interface_counters, new_countries_config, target_total,
           new_nodes, new_links, country_nodes, g_c, g_i, origin, rnd>>
vvars == <<v_pc, v_data, neighbor_counts, zaf_report, missing_fields, isolated,
           v_run>>
vars == <<input_file, output_file, g_pc, g_data, interface_counters,
          new_countries_config, target_total, new_nodes, new_links,
          country_nodes, g_c, g_i, origin, rnd, v_pc, v_data, neighbor_counts,
          zaf_report, missing_fields, isolated, v_run>>

(***************************************************************************)
(* Bounds                                                                  *)
(***************************************************************************)
\* longest link list of a document handed to the validator
MaxLinks == 2
\* validator runs per behaviour
MaxValRuns == 2
\* random draws per generator run that may return another candidate than
\* the first one (every draw enumerates all its candidates while the budget
\* lasts)
MaxRandom == 1
\* largest existing node count tried with the source's own configuration
MaxExisting == 30

(***************************************************************************)
(* Generic helpers                                                         *)
(***************************************************************************)
Range(s) == {s[i] : i \in DOMAIN s}

RECURSIVE SeqSum(_)
SeqSum(s) == IF s = <<>> THEN 0 ELSE s[1] + SeqSum(Tail(s))

SetMax(S) == CHOOSE m \in S : \A x \in S : x <= m

SeqsUpTo(S, n) == UNION {[1..k -> S] : k \in 0..n}

\* dict[key] = value
Put(d, key, value) == [k \in DOMAIN d \cup {key} |-> IF k = key THEN value ELSE d[k]]

\* a JSON object without some of its keys
Without(obj, keys) == [k \in DOMAIN obj \ keys |-> obj[k]]

\* link['source'] is either a string or an object with an 'id'
StrRef(id) == [kind |-> "str", value |-> id]
DictRef(id) == [kind |-> "dict", id |-> id]
\* src['id'] if isinstance(src, dict) else src
RefId(ref) == IF ref.kind = "dict" THEN ref.id ELSE ref.value

(***************************************************************************)
(* Interface names: GigabitEthernet0/0/0/<n> as a token sequence           *)
(***************************************************************************)
Digits == <<"0", "1", "2", "3", "4", "5", "6", "7", "8", "9">>
IsDigit(t) == t \in Range(Digits)
DigitVal(t) == (CHOOSE i \in DOMAIN Digits : Digits[i] = t) - 1

\* str(n) for n >= 0
RECURSIVE Dec(_)
Dec(n) == IF n < 10 THEN <<Digits[n + 1]>>
          ELSE Dec(n \div 10) \o <<Digits[(n % 10) + 1]>>

\* int(digits)
RECURSIVE IntOf(_)
IntOf(ds) == IF ds = <<>> THEN 0
             ELSE 10 * IntOf(SubSeq(ds, 1, Len(ds) - 1)) + DigitVal(ds[Len(ds)])

\* number of digit tokens at the end of a name
RECURSIVE TrailingDigits(_)
TrailingDigits(name) ==
    IF name = <<>> \/ ~IsDigit(name[Len(name)]) THEN 0
    ELSE 1 + TrailingDigits(SubSeq(name, 1, Len(name) - 1))

\* re.search(r'/(\d+)$', interface_name): the digits at the end, if a '/'
\* stands right before them; 0 when there is no match
get_interface_index(interface_name) ==
    LET k == TrailingDigits(interface_name)
        n == Len(interface_name)
    IN  IF k >= 1 /\ n > k /\ interface_name[n - k] = "/"
        THEN IntOf(SubSeq(interface_name, n - k + 1, n))
        ELSE 0

\* f"GigabitEthernet0/0/0/{n}"
InterfaceName(n) == <<"GigabitEthernet", "0", "/", "0", "/", "0", "/">> \o Dec(n)

(***************************************************************************)
(* Documents                                                               *)
(***************************************************************************)
NoFile == [absent |-> TRUE]
Exists(file) == "nodes" \in DOMAIN file

Metadata(nc, ec, descr, ts) ==
    [node_count |-> nc, edge_count |-> ec, description |-> descr,
     export_timestamp |-> ts]

Document(nodes, links) ==
    [nodes |-> nodes, links |-> links,
     metadata |-> Metadata(Len(nodes), Len(links), "base", "t0")]

\* a node as the existing topology file stores it
ExistingNode(id, country, octet) ==
    [id |-> id, name |-> id, hostname |-> id, loopback_ip |-> <<172, 16, octet, octet>>,
     country |-> country, is_active |-> TRUE, node_type |-> "router"]

Capacity == [speed |-> "1G", is_bundle |-> FALSE, total_capacity_mbps |-> 1000]
Traffic == [forward_traffic_mbps |-> 0, forward_utilization_pct |-> 0,
            reverse_traffic_mbps |-> 0, reverse_utilization_pct |-> 0]

\* a link record with every field of the schema
LinkRecord(source, target, source_interface, target_interface, cost, type) ==
    [source |-> source, target |-> target,
     source_interface |-> source_interface, target_interface |-> target_interface,
     forward_cost |-> cost, reverse_cost |-> cost, cost |-> cost,
     status |-> "up", edge_type |-> type, is_asymmetric |-> FALSE,
     source_capacity |-> Capacity, target_capacity |-> Capacity,
     traffic |-> Traffic]

(***************************************************************************)
(* Validator (validate_topology.py)                                        *)
(***************************************************************************)
NodeIds(nodes) == {nodes[i].id : i \in DOMAIN nodes}

\* link['source'] / link['target'] raise KeyError on a link without the key
LinkKeyError(links) ==
    \E i \in DOMAIN links : "source" \notin DOMAIN links[i] \/ "target" \notin DOMAIN links[i]

\* the two `if ... in neighbor_counts: ... += 1` statements for one link
\* a count that stops at the first endpoint found (elif for the target)
CountLinkMutSelfLoopOnce(nc, link) ==
    LET src_id == RefId(link.source)
        dst_id == RefId(link.target)
    IN  IF src_id \in DOMAIN nc THEN [nc EXCEPT ![src_id] = @ + 1]
        ELSE IF dst_id \in DOMAIN nc THEN [nc EXCEPT ![dst_id] = @ + 1]
        ELSE nc

CountLink(nc, link) ==
    LET src_id == RefId(link.source)
        dst_id == RefId(link.target)
        nc1 == IF src_id \in DOMAIN nc THEN [nc EXCEPT ![src_id] = @ + 1] ELSE nc
    IN  IF dst_id \in DOMAIN nc1 THEN [nc1 EXCEPT ![dst_id] = @ + 1] ELSE nc1

\* the loop over links, from an all-zero dict keyed by the node ids
RECURSIVE CountLinks(_, _)
CountLinks(nc, links) ==
    IF links = <<>> THEN nc
    ELSE CountLinks(CountLink(nc, Head(links)), Tail(links))

\* counts that start from the stored neighbor_count instead of 0
ComputeNeighborCountsMutAccumulate(nodes, links) ==
    CountLinks([id \in NodeIds(nodes) |->
                   LET n == CHOOSE k \in DOMAIN nodes : nodes[k].id = id
                   IN  IF "neighbor_count" \in DOMAIN nodes[n]
                       THEN nodes[n].neighbor_count ELSE 0],
               links)

ComputeNeighborCounts(nodes, links) ==
    CountLinks([id \in NodeIds(nodes) |-> 0], links)

\* an annotation that keeps a neighbor_count the node already carries
\* an annotation that rebuilds each node from its id, country and count alone
AnnotateNodesMutFresh(nodes, nc) ==
    [i \in DOMAIN nodes |->
        [id |-> nodes[i].id, country |-> nodes[i].country,
         neighbor_count |-> IF nodes[i].id \in DOMAIN nc THEN nc[nodes[i].id] ELSE 0]]

AnnotateNodesMutKeep(nodes, nc) ==
    [i \in DOMAIN nodes |->
        IF "neighbor_count" \in DOMAIN nodes[i] THEN nodes[i]
        ELSE Put(nodes[i], "neighbor_count",
                 IF nodes[i].id \in DOMAIN nc THEN nc[nodes[i].id] ELSE 0)]

\* node['neighbor_count'] = neighbor_counts.get(node['id'], 0) for every node
AnnotateNodes(nodes, nc) ==
    [i \in DOMAIN nodes |->
        Put(nodes[i], "neighbor_count",
            IF nodes[i].id \in DOMAIN nc THEN nc[nodes[i].id] ELSE 0)]

\* country_dist.get(c, 0)
CountryCount(nodes, c) == Cardinality({i \in DOMAIN nodes : nodes[i].country = c})

new_countries == <<"ZAF", "LSO", "MOZ", "PRT", "FRA">>

\* max(other_counts) if other_counts else 0
MaxOther(nodes) ==
    LET other_counts == {CountryCount(nodes, new_countries[k]) :
                            k \in {j \in DOMAIN new_countries : new_countries[j] # "ZAF"}}
    IN  IF other_counts = {} THEN 0 ELSE SetMax(other_counts)

\* zaf_count >= max_other * 1.4; on integers the float product compares as
\* the exact one: 5 * zaf_count >= 7 * max_other
ZafRequirementMutNoFactor(zaf_count, max_other) == zaf_count >= max_other

ZafRequirementMet(zaf_count, max_other) == 5 * zaf_count >= 7 * max_other

required == <<"source", "target", "source_interface", "target_interface",
              "forward_cost", "reverse_cost", "cost", "status">>

\* f"Link {i}: missing '{field}'"
Issue(i, field) == [link |-> i, field |-> field]

\* the issues of one link, in the order of `required`
RECURSIVE LinkIssues(_, _, _)
LinkIssues(link, i, k) ==
    IF k > Len(required) THEN <<>>
    ELSE (IF required[k] \notin DOMAIN link THEN <<Issue(i, required[k])>> ELSE <<>>)
         \o LinkIssues(link, i, k + 1)

\* for i, link in enumerate(links): positions count from 0
RECURSIVE AllIssues(_, _)
AllIssues(links, p) ==
    IF p > Len(links) THEN <<>>
    ELSE LinkIssues(links[p], p - 1, 1) \o AllIssues(links, p + 1)

\* keys of neighbor_counts in insertion order: node ids, first occurrence
RECURSIVE KeyOrder(_, _)
KeyOrder(nodes, seen) ==
    IF nodes = <<>> THEN <<>>
    ELSE IF Head(nodes).id \in seen THEN KeyOrder(Tail(nodes), seen)
    ELSE <<Head(nodes).id>> \o KeyOrder(Tail(nodes), seen \cup {Head(nodes).id})

RECURSIVE SelectSeq2(_, _)
SelectSeq2(s, nc) ==
    IF s = <<>> THEN <<>>
    ELSE (IF nc[Head(s)] = 0 THEN <<Head(s)>> ELSE <<>>) \o SelectSeq2(Tail(s), nc)

\* [nid for nid, count in neighbor_counts.items() if count == 0]
IsolatedNodes(nodes, nc) == SelectSeq2(KeyOrder(nodes, {}), nc)

EmptyDict == [k \in {} |-> 0]

\* a validator process starts and loads the document (lines 6-10)
ValLoad ==
    /\ v_pc \in {"idle", "done", "crashed"}
    /\ v_run < MaxValRuns
    /\ v_run' = v_run + 1
    /\ neighbor_counts' = EmptyDict
    /\ zaf_report' = "none"
    /\ missing_fields' = <<>>
    /\ isolated' = <<>>
    /\ IF Exists(output_file)
       THEN v_pc' = "count" /\ v_data' = output_file
       ELSE v_pc' = "crashed" /\ v_data' = NoFile
    /\ UNCHANGED <<fvars, gvars>>

\* neighbor counts and their copy into the nodes (lines 16-36)
ValCount ==
    /\ v_pc = "count"
    /\ IF LinkKeyError(v_data.links)
       THEN /\ v_pc' = "crashed"
            /\ UNCHANGED <<v_data, neighbor_counts>>
       ELSE /\ v_pc' = "check"
            /\ neighbor_counts' = ComputeNeighborCounts(v_data.nodes, v_data.links)
            /\ v_data' = [v_data EXCEPT !.nodes = AnnotateNodes(v_data.nodes, neighbor_counts')]
    /\ UNCHANGED <<fvars, gvars, zaf_report, missing_fields, isolated, v_run>>

\* country distribution, ZAF requirement, required link fields (lines 38-81)
ValCheck ==
    /\ v_pc = "check"
    /\ zaf_report' = IF ZafRequirementMet(CountryCount(v_data.nodes, "ZAF"),
                                          MaxOther(v_data.nodes))
                     THEN "met" ELSE "not_met"
    /\ missing_fields' = AllIssues(v_data.links, 1)
    /\ v_pc' = "stats"
    /\ UNCHANGED <<fvars, gvars, v_data, neighbor_counts, isolated, v_run>>

\* degree statistics and isolated nodes (lines 83-97); min() of an empty
\* list raises ValueError
ValStats ==
    /\ v_pc = "stats"
    /\ IF DOMAIN neighbor_counts = {}
       THEN v_pc' = "crashed" /\ UNCHANGED isolated
       ELSE v_pc' = "save" /\ isolated' = IsolatedNodes(v_data.nodes, neighbor_counts)
    /\ UNCHANGED <<fvars, gvars, v_data, neighbor_counts, zaf_report, missing_fields, v_run>>

\* a save that puts the annotated nodes into the file as it is now
ValSaveMutNodesOnly ==
    /\ v_pc = "save"
    /\ output_file' = [output_file EXCEPT !.nodes = v_data.nodes]
    /\ v_pc' = "done"
    /\ UNCHANGED <<input_file, gvars, v_data, neighbor_counts, zaf_report,
                   missing_fields, isolated, v_run>>

\* json.dump(data) over the file that was read (lines 99-104)
ValSave ==
    /\ v_pc = "save"
    /\ output_file' = v_data
    /\ v_pc' = "done"
    /\ UNCHANGED <<input_file, gvars, v_data, neighbor_counts, zaf_report,
                   missing_fields, isolated, v_run>>

ValNext == ValLoad \/ ValCount \/ ValCheck \/ ValStats \/ ValSave

ValIdle ==
    /\ v_pc = "idle"
    /\ v_data = NoFile
    /\ neighbor_counts = EmptyDict
    /\ zaf_report = "none"
    /\ missing_fields = <<>>
    /\ isolated = <<>>
    /\ v_run = 0

(***************************************************************************)
(* Generator (generate_topology.py)                                        *)
(***************************************************************************)
\* list(new_countries_config.keys()): the order of the dict literal
countries_list == <<"ZAF", "LSO", "MOZ", "PRT", "FRA">>

\* country.lower()
Lower(country) ==
    CASE country = "ZAF" -> "zaf"
      [] country = "LSO" -> "lso"
      [] country = "MOZ" -> "moz"
      [] country = "PRT" -> "prt"
      [] country = "FRA" -> "fra"

Max(a, b) == IF a >= b THEN a ELSE b

\* link.get(field, '')
GetOr(link, field) == IF field \in DOMAIN link THEN link[field] ELSE <<>>

\* one iteration of the scan of existing links (lines 38-57)
ScanLink(ic, link) ==
    LET src_id == RefId(link.source)
        dst_id == RefId(link.target)
        src_idx == get_interface_index(GetOr(link, "source_interface"))
        dst_idx == get_interface_index(GetOr(link, "target_interface"))
        ic1 == IF src_id \in DOMAIN ic
               THEN [ic EXCEPT ![src_id] = Max(@, src_idx)]
               ELSE Put(ic, src_id, src_idx)
    IN  IF dst_id \in DOMAIN ic1
        THEN [ic1 EXCEPT ![dst_id] = Max(@, dst_idx)]
        ELSE Put(ic1, dst_id, dst_idx)

RECURSIVE ScanLinks(_, _)
ScanLinks(ic, links) ==
    IF links = <<>> THEN ic ELSE ScanLinks(ScanLink(ic, Head(links)), Tail(links))

\* interface_counters after lines 24-57
InitialCounters(existing_nodes, existing_links) ==
    ScanLinks([id \in NodeIds(existing_nodes) |-> 0], existing_links)

\* get_next_interface: the counters after the call; the name handed out is
\* InterfaceName of the node's new counter
get_next_interface(ic, node_id) ==
    LET ic0 == IF node_id \in DOMAIN ic THEN ic ELSE Put(ic, node_id, 0)
    IN  [ic0 EXCEPT ![node_id] = @ + 1]

\* create_link(src, dst, type): the link and the counters it leaves
create_link(ic, src, dst, type) ==
    LET cost == IF type = "backbone" THEN 10 ELSE 100
        ic1 == get_next_interface(ic, src)
        src_int == InterfaceName(ic1[src])
        ic2 == get_next_interface(ic1, dst)
        dst_int == InterfaceName(ic2[dst])
    IN  [link |-> LinkRecord(StrRef(src), StrRef(dst), src_int, dst_int, cost, type),
         counters |-> ic2]

\* new_links.append(create_link(s, d, "backbone")) for each pair, in order
RECURSIVE AppendLinks(_, _, _)
AppendLinks(links, ic, pairs) ==
    IF pairs = <<>> THEN [links |-> links, counters |-> ic]
    ELSE LET made == create_link(ic, Head(pairs)[1], Head(pairs)[2], "backbone")
         IN  AppendLinks(Append(links, made.link), made.counters, Tail(pairs))

\* the adjustment of lines 85-92
AdjustedConfig(config, target, current_count) ==
    LET needed == target - current_count
        total_new == SeqSum([k \in DOMAIN countries_list |-> config[countries_list[k]]])
    IN  IF total_new # needed
        THEN [config EXCEPT !["FRA"] = @ + (needed - total_new)]
        ELSE config

\* ids that leave the group tag out
create_nodeMutNoGroup(country, idx, made) ==
    LET node_id == "r" \o ToString(idx)
        unique_num == 100 + made
    IN  [id |-> node_id, name |-> node_id, hostname |-> node_id,
         loopback_ip |-> <<172, 16, unique_num, idx>>,
         country |-> country, is_active |-> TRUE, node_type |-> "router"]

\* create_node(country, idx) when len(new_nodes) nodes exist already
create_node(country, idx, made) ==
    LET node_id == Lower(country) \o "-r" \o ToString(idx)
        unique_num == 100 + made
    IN  [id |-> node_id, name |-> node_id, hostname |-> node_id,
         loopback_ip |-> <<172, 16, unique_num, idx>>,
         country |-> country, is_active |-> TRUE, node_type |-> "router"]

\* range(1, count + 1) has no element for count < 1
CountOf(config, k) == Max(0, config[countries_list[k]])

\* new_nodes after the groups k..end, `made` nodes existing before them
RECURSIVE GenerateNodes(_, _, _)
GenerateNodes(config, k, made) ==
    IF k > Len(countries_list) THEN <<>>
    ELSE [i \in 1..CountOf(config, k) |-> create_node(countries_list[k], i, made + i - 1)]
         \o GenerateNodes(config, k + 1, made + CountOf(config, k))

\* country_nodes[c]: the ids of the group's nodes in generation order
GroupIds(config, c) ==
    LET k == CHOOSE j \in DOMAIN countries_list : countries_list[j] = c
    IN  [i \in 1..CountOf(config, k) |-> Lower(c) \o "-r" \o ToString(i)]

\* a chain that does not close: no link from the last node to the first
RingPairsMutOpen(nodes) ==
    [i \in 1..(Len(nodes) - 1) |-> <<nodes[i], nodes[i + 1]>>]

\* for i in range(len(nodes)): (nodes[i], nodes[(i + 1) % len(nodes)])
RingPairs(nodes) ==
    [i \in 1..Len(nodes) |-> <<nodes[i], nodes[(i % Len(nodes)) + 1]>>]

\* existing_by_country[c] (lines 199-204)
ExistingByCountry(existing_nodes, c) ==
    LET idx == {i \in DOMAIN existing_nodes : existing_nodes[i].country = c}
        RECURSIVE Pick(_)
        Pick(i) == IF i > Len(existing_nodes) THEN <<>>
                   ELSE (IF i \in idx THEN <<existing_nodes[i].id>> ELSE <<>>) \o Pick(i + 1)
    IN  Pick(1)

\* the conditional bridges of lines 206-228 and the two of lines 230-238
ExternalBridges == << <<"ZAF", "ZWE">>, <<"PRT", "DEU">>, <<"FRA", "GBR">>, <<"PRT", "USA">> >>
InternalBridges == << <<"MOZ", "ZAF">>, <<"LSO", "ZAF">> >>

\* a random draw may leave the first candidate while the budget lasts
Draw(first, taken) == IF taken = first THEN 0 ELSE 1

existing_nodes == g_data.nodes
existing_links == g_data.links

\* origin entries for n links made by one step
Made(n, step, group) == [i \in 1..n |-> <<step, group>>]

\* two draws with replacement: the same node may come twice
Sample2MutReplace(nodes) == {<<nodes[i], nodes[j]>> : i, j \in DOMAIN nodes}

\* ordered pairs of distinct elements: random.sample(nodes, 2)
Sample2(nodes) ==
    {<<nodes[i], nodes[j]>> : i, j \in DOMAIN nodes} \ {<<nodes[i], nodes[i]>> : i \in DOMAIN nodes}

\* interface_counters[node['id']] = 0 for every generated node (line 126)
ResetCounters(ic, ids) == [k \in DOMAIN ic \cup ids |-> IF k \in ids THEN 0 ELSE ic[k]]

\* num_cross = max(2, len(nodes) // 3)
NumCross(n) == Max(2, n \div 3)

\* a cross-link loop that appends without comparing src and dst
ChordPairsMutNoGuard(src, dst) == << <<src, dst>> >>

\* if src != dst: new_links.append(create_link(src, dst, "backbone"))
ChordPairs(src, dst) == IF src # dst THEN << <<src, dst>> >> ELSE <<>>

\* the generator process starts and loads the document (lines 10-17)
GenLoad ==
    /\ g_pc = "idle"
    /\ IF Exists(input_file)
       THEN g_pc' = "scan" /\ g_data' = input_file
       ELSE g_pc' = "crashed" /\ UNCHANGED g_data
    /\ UNCHANGED <<fvars, vvars, interface_counters, new_countries_config,
                   target_total, new_nodes, new_links, country_nodes, g_c, g_i,
                   origin, rnd>>

\* interface counters from the existing links (lines 24-59); link['source']
\* raises KeyError on a link without the key
GenScan ==
    /\ g_pc = "scan"
    /\ IF LinkKeyError(existing_links)
       THEN g_pc' = "crashed" /\ UNCHANGED interface_counters
       ELSE /\ g_pc' = "config"
            /\ interface_counters' = InitialCounters(existing_nodes, existing_links)
    /\ UNCHANGED <<fvars, vvars, g_data, new_countries_config, target_total,
                   new_nodes, new_links, country_nodes, g_c, g_i, origin, rnd>>

\* the group configuration and its adjustment (lines 69-92)
GenConfig ==
    /\ g_pc = "config"
    /\ new_countries_config' =
           AdjustedConfig(new_countries_config, target_total, Len(existing_nodes))
    /\ g_pc' = "nodes"
    /\ UNCHANGED <<fvars, vvars, g_data, interface_counters, target_total,
                   new_nodes, new_links, country_nodes, g_c, g_i, origin, rnd>>

\* node generation (lines 94-126)
GenNodes ==
    /\ g_pc = "nodes"
    /\ new_nodes' = GenerateNodes(new_countries_config, 1, 0)
    /\ country_nodes' = [c \in Range(countries_list) |-> GroupIds(new_countries_config, c)]
    /\ interface_counters' = ResetCounters(interface_counters, NodeIds(new_nodes'))
    /\ g_pc' = "ring"
    /\ g_c' = 1
    /\ UNCHANGED <<fvars, vvars, g_data, new_countries_config, target_total,
                   new_links, g_i, origin, rnd>>

\* the ring of the current group (lines 166-171)
GenRing ==
    /\ g_pc = "ring"
    /\ LET c == countries_list[g_c]
           nodes == country_nodes[c]
           made == AppendLinks(new_links, interface_counters, RingPairs(nodes))
       IN  /\ new_links' = made.links
           /\ interface_counters' = made.counters
           /\ origin' = origin \o Made(Len(made.links) - Len(new_links), "ring", c)
    /\ g_pc' = "chord"
    /\ g_i' = 0
    /\ UNCHANGED <<fvars, vvars, g_data, new_countries_config, target_total,
                   new_nodes, country_nodes, g_c, rnd>>

\* one iteration of the cross-link loop of the current group (lines 173-183);
\* random.choice raises IndexError on an empty list
GenChord ==
    /\ g_pc = "chord"
    /\ LET c == countries_list[g_c]
           nodes == country_nodes[c]
           num_cross == NumCross(Len(nodes))
       IN  IF nodes = <<>>
           THEN /\ g_pc' = "crashed"
                /\ UNCHANGED <<new_links, interface_counters, origin, rnd, g_c, g_i>>
           ELSE /\ \E src \in Range(nodes), dst \in Range(nodes) :
                     LET spent == Draw(<<nodes[1], nodes[1]>>, <<src, dst>>)
                         made == AppendLinks(new_links, interface_counters,
                                             ChordPairs(src, dst))
                     IN  /\ rnd + spent <= MaxRandom
                         /\ rnd' = rnd + spent
                         /\ new_links' = made.links
                         /\ interface_counters' = made.counters
                         /\ origin' = origin \o Made(Len(made.links) - Len(new_links), "chord", c)
                /\ IF g_i + 1 < num_cross
                   THEN g_i' = g_i + 1 /\ UNCHANGED <<g_pc, g_c>>
                   ELSE /\ g_i' = 0
                        /\ IF g_c < Len(countries_list)
                           THEN g_pc' = "ring" /\ g_c' = g_c + 1
                           ELSE g_pc' = "inter" /\ g_c' = 1
    /\ UNCHANGED <<fvars, vvars, g_data, new_countries_config, target_total,
                   new_nodes, country_nodes>>

\* one iteration of the ring of countries (lines 185-195); random.sample
\* raises ValueError when the list has fewer than 2 elements
GenInter ==
    /\ g_pc = "inter"
    /\ LET c1 == countries_list[g_c]
           c2 == countries_list[(g_c % Len(countries_list)) + 1]
           n1 == country_nodes[c1]
           n2 == country_nodes[c2]
       IN  IF Len(n1) < 2 \/ Len(n2) < 2
           THEN /\ g_pc' = "crashed"
                /\ UNCHANGED <<new_links, interface_counters, origin, rnd, g_c, g_i>>
           ELSE /\ \E srcs \in Sample2(n1), dsts \in Sample2(n2) :
                     LET spent == Draw(<< <<n1[1], n1[2]>>, <<n2[1], n2[2]>> >>, <<srcs, dsts>>)
                         made == AppendLinks(new_links, interface_counters,
                                             << <<srcs[1], dsts[1]>>, <<srcs[2], dsts[2]>> >>)
                     IN  /\ rnd + spent <= MaxRandom
                         /\ rnd' = rnd + spent
                         /\ new_links' = made.links
                         /\ interface_counters' = made.counters
                         /\ origin' = origin \o Made(Len(made.links) - Len(new_links), "inter", c1)
                /\ IF g_c < Len(countries_list)
                   THEN g_c' = g_c + 1 /\ UNCHANGED <<g_pc, g_i>>
                   ELSE g_pc' = "bridge" /\ g_c' = 1 /\ g_i' = 1
    /\ UNCHANGED <<fvars, vvars, g_data, new_countries_config, target_total,
                   new_nodes, country_nodes>>

\* one link from a random node of a group to a random node of a list
BridgeLink(step, group, srcs, dsts) ==
    \E src \in Range(srcs), dst \in Range(dsts) :
        LET spent == Draw(<<srcs[1], dsts[1]>>, <<src, dst>>)
            made == AppendLinks(new_links, interface_counters, << <<src, dst>> >>)
        IN  /\ rnd + spent <= MaxRandom
            /\ rnd' = rnd + spent
            /\ new_links' = made.links
            /\ interface_counters' = made.counters
            /\ origin' = origin \o Made(Len(made.links) - Len(new_links), step, group)

\* one of the four bridges to an existing country (lines 197-228)
GenBridge ==
    /\ g_pc = "bridge"
    /\ LET new == ExternalBridges[g_i][1]
           old == ExternalBridges[g_i][2]
           olds == ExistingByCountry(existing_nodes, old)
       IN  IF olds # <<>>
           THEN BridgeLink("bridge", new, country_nodes[new], olds)
           ELSE UNCHANGED <<new_links, interface_counters, origin, rnd>>
    /\ IF g_i < Len(ExternalBridges)
       THEN g_i' = g_i + 1 /\ UNCHANGED g_pc
       ELSE g_pc' = "internal" /\ g_i' = 1
    /\ UNCHANGED <<fvars, vvars, g_data, new_countries_config, target_total,
                   new_nodes, country_nodes, g_c>>

\* MOZ <-> ZAF, then LSO <-> ZAF (lines 230-238)
GenInternal ==
    /\ g_pc = "internal"
    /\ LET from == InternalBridges[g_i][1]
           to == InternalBridges[g_i][2]
       IN  BridgeLink("internal", from, country_nodes[from], country_nodes[to])
    /\ IF g_i < Len(InternalBridges)
       THEN g_i' = g_i + 1 /\ UNCHANGED g_pc
       ELSE g_pc' = "save" /\ g_i' = 0
    /\ UNCHANGED <<fvars, vvars, g_data, new_countries_config, target_total,
                   new_nodes, country_nodes, g_c>>

\* a writer that drops the existing nodes
OutputDocumentMutNewOnly(data, nodes, links) ==
    [data EXCEPT !.nodes = nodes,
                 !.links = data.links \o links,
                 !.metadata = [@ EXCEPT !.node_count = Len(nodes),
                                        !.edge_count = Len(data.links \o links),
                                        !.export_timestamp = "now",
                                        !.description = "expanded"]]

\* a writer that puts the generated nodes and links first
OutputDocumentMutNewFirst(data, nodes, links) ==
    [data EXCEPT !.nodes = nodes \o data.nodes,
                 !.links = links \o data.links,
                 !.metadata = [@ EXCEPT !.node_count = Len(data.nodes \o nodes),
                                        !.edge_count = Len(data.links \o links),
                                        !.export_timestamp = "now",
                                        !.description = "expanded"]]

\* data as written by lines 240-253
OutputDocument(data, nodes, links) ==
    [data EXCEPT !.nodes = data.nodes \o nodes,
                 !.links = data.links \o links,
                 !.metadata = [@ EXCEPT !.node_count = Len(data.nodes \o nodes),
                                        !.edge_count = Len(data.links \o links),
                                        !.export_timestamp = "now",
                                        !.description = "expanded"]]

GenSave ==
    /\ g_pc = "save"
    /\ g_data' = OutputDocument(g_data, new_nodes, new_links)
    /\ output_file' = g_data'
    /\ g_pc' = "done"
    /\ UNCHANGED <<input_file, vvars, interface_counters, new_countries_config,
                   target_total, new_nodes, new_links, country_nodes, g_c, g_i,
                   origin, rnd>>

GenNext ==
    \/ GenLoad \/ GenScan \/ GenConfig \/ GenNodes \/ GenRing \/ GenChord
    \/ GenInter \/ GenBridge \/ GenInternal \/ GenSave

GenIdle(config, target) ==
    /\ g_pc = "idle"
    /\ g_data = NoFile
    /\ interface_counters = EmptyDict
    /\ new_countries_config = config
    /\ target_total = target
    /\ new_nodes = <<>>
    /\ new_links = <<>>
    /\ country_nodes = EmptyDict
    /\ g_c = 0
    /\ g_i = 0
    /\ origin = <<>>
    /\ rnd = 0

(***************************************************************************)
(* Configurations and documents the runs start from                        *)
(***************************************************************************)
\* the configuration of the source (lines 69-83)
SourceTarget == 100
SourceConfig == [ZAF |-> 24, LSO |-> 16, MOZ |-> 17, PRT |-> 16, FRA |-> 17]

\* the same five groups scaled down, for the runs that generate links
SmallScenario ==
    [config |-> [ZAF |-> 3, LSO |-> 2, MOZ |-> 2, PRT |-> 2, FRA |-> 2],
     target_total |-> 13]

Gi(n) == InterfaceName(n)

WithCount(node, n) == Put(node, "neighbor_count", n)

\* existing topologies at the generator's input path
ExistingDocs ==
    LET zwe == ExistingNode("zwe-r1", "ZWE", 1)
        deu == ExistingNode("deu-r1", "DEU", 2)
        usa == ExistingNode("usa-r1", "USA", 3)
        gbr == ExistingNode("gbr-r1", "GBR", 4)
        clash == ExistingNode("zaf-r1", "GBR", 5)
        zd == LinkRecord(StrRef("zwe-r1"), StrRef("deu-r1"), Gi(1), Gi(2), 10, "backbone")
        ug == LinkRecord(DictRef("usa-r1"), StrRef("gbr-r1"), Gi(3), Gi(12), 10, "backbone")
        gu == Without(LinkRecord(StrRef("gbr-r1"), StrRef("usa-r1"),
                                 <<"Loopback", "0">>, Gi(1), 10, "backbone"),
                      {"target_interface", "status"})
        dangling == LinkRecord(StrRef("usa-r1"), StrRef("zaf-r2"), Gi(4), Gi(1), 10, "backbone")
    IN  { Document(<<>>, <<>>),
          Document(<<zwe, deu>>, <<zd>>),
          Document(<<WithCount(clash, 0)>>, <<>>),
          Document(<<WithCount(usa, 2), WithCount(gbr, 2)>>, <<ug, gu>>),
          Document(<<usa>>, <<dangling>>),
          Document(<<zwe, deu, usa>>, <<zd, zd>>),
          Document(<<zwe, deu, usa, gbr>>, <<>>),
          Document(<<zwe, deu>>, <<Without(zd, {"source"})>>) }

\* existing topologies of n nodes, for the source's own configuration
PlainDocs ==
    {Document([i \in 1..n |-> ExistingNode("zwe-r" \o ToString(i), "ZWE", i)], <<>>) :
        n \in 0..MaxExisting}

\* documents at the validator's path: a node list and up to MaxLinks links
ValNodeLists ==
    LET zaf1 == ExistingNode("zaf-r1", "ZAF", 1)
        zaf2 == ExistingNode("zaf-r2", "ZAF", 2)
        lso1 == ExistingNode("lso-r1", "LSO", 3)
        zwe1 == ExistingNode("zwe-r1", "ZWE", 4)
    IN  { <<>>,
          <<zaf1, WithCount(lso1, 7)>>,
          <<zaf1, zaf2, lso1>>,
          <<zwe1, ExistingNode("usa-r1", "USA", 5)>>,
          <<zaf1, lso1, ExistingNode("moz-r1", "MOZ", 6),
            ExistingNode("prt-r1", "PRT", 7), ExistingNode("fra-r1", "FRA", 8)>> }

ValLinkShapes ==
    LET ends == { <<"zaf-r1", "lso-r1">>, <<"lso-r1", "zaf-r1">>,
                  <<"zaf-r1", "zaf-r1">>, <<"zwe-r1", "zaf-r1">> }
        drop == { {}, {"status"}, {"source"}, {"target_interface", "cost"} }
    IN  {Without(LinkRecord(StrRef(e[1]), StrRef(e[2]), Gi(1), Gi(2), 10, "backbone"), d) :
            e \in ends, d \in drop}
        \cup {LinkRecord(DictRef("lso-r1"), DictRef("zaf-r2"), Gi(1), Gi(2), 10, "backbone")}

ValDocs ==
    {Document(nodes, links) : nodes \in ValNodeLists, links \in SeqsUpTo(ValLinkShapes, MaxLinks)}

(***************************************************************************)
(* Specifications                                                          *)
(***************************************************************************)
\* the generator alone, on the scaled configuration
InitGen ==
    /\ input_file \in ExistingDocs
    /\ output_file = NoFile
    /\ GenIdle(SmallScenario.config, SmallScenario.target_total)
    /\ ValIdle

SpecGen == InitGen /\ [][GenNext]_vars

\* the generator's configuration and node steps on the source's configuration
InitConfig ==
    /\ input_file \in PlainDocs
    /\ output_file = NoFile
    /\ GenIdle(SourceConfig, SourceTarget)
    /\ ValIdle

NextConfig == GenLoad \/ GenScan \/ GenConfig \/ GenNodes

SpecConfig == InitConfig /\ [][NextConfig]_vars

\* the validator alone, run up to MaxValRuns times on a document
InitVal ==
    /\ input_file = NoFile
    /\ output_file \in ValDocs
    /\ GenIdle(SmallScenario.config, SmallScenario.target_total)
    /\ ValIdle

SpecVal == InitVal /\ [][ValNext]_vars

\* an existing topology whose nodes carry the neighbor_count of its links
ValidatedInput ==
    LET ug == LinkRecord(DictRef("usa-r1"), StrRef("gbr-r1"), Gi(3), Gi(12), 10, "backbone")
        gu == Without(LinkRecord(StrRef("gbr-r1"), StrRef("usa-r1"),
                                 <<"Loopback", "0">>, Gi(1), 10, "backbone"),
                      {"target_interface", "status"})
    IN  Document(<<WithCount(ExistingNode("usa-r1", "USA", 3), 2),
                   WithCount(ExistingNode("gbr-r1", "GBR", 4), 2)>>, <<ug, gu>>)

\* an existing topology of one node without links, validated as well
LoneInput == Document(<<WithCount(ExistingNode("zwe-r1", "ZWE", 1), 0)>>, <<>>)

\* a document left at the output path by an earlier export
OldOutput ==
    Document(<<ExistingNode("zwe-r1", "ZWE", 1), ExistingNode("deu-r1", "DEU", 2)>>,
             <<LinkRecord(StrRef("zwe-r1"), StrRef("deu-r1"), Gi(1), Gi(2), 10, "backbone")>>)

\* both processes, interleaved at their steps
Init ==
    /\ input_file \in {ValidatedInput, LoneInput}
    /\ output_file \in {NoFile, OldOutput}
    /\ GenIdle(SmallScenario.config, SmallScenario.target_total)
    /\ ValIdle

Next == GenNext \/ ValNext

Spec == Init /\ [][Next]_vars

(***************************************************************************)
(* Properties of the validator                                             *)
(***************************************************************************)
\* number of link endpoints (source or target occurrences) that name id
EndpointCount(links, id) ==
    Cardinality({e \in (DOMAIN links) \X {"source", "target"} :
                    RefId(links[e[1]][e[2]]) = id})

\* C1: after a validator run, every node's neighbor_count is the number of
\* link endpoints naming the node, a self-loop counting twice
C1_NeighborCountIsEndpointCount ==
    v_pc = "done" =>
        \A i \in DOMAIN output_file.nodes :
            output_file.nodes[i].neighbor_count
                = EndpointCount(output_file.links, output_file.nodes[i].id)

\* a finished run over a document with a self-loop and a further link on
\* the same node, and with a link to a node that is not in the document
C1_Witness ==
    /\ v_pc = "done"
    /\ \E i \in DOMAIN output_file.nodes, p, q \in DOMAIN output_file.links :
          LET id == output_file.nodes[i].id
          IN  /\ p # q
              /\ RefId(output_file.links[p].source) = id
              /\ RefId(output_file.links[p].target) = id
              /\ id \in {RefId(output_file.links[q].source), RefId(output_file.links[q].target)}
              /\ output_file.nodes[i].neighbor_count >= 3

\* the (link position, field) pairs a link list lacks
ExpectedIssues(links) ==
    {Issue(e[1] - 1, e[2]) :
        e \in {x \in (DOMAIN links) \X Range(required) : x[2] \notin DOMAIN links[x[1]]}}

\* C6: a validator run records exactly one issue per (link position, missing
\* required field) pair and no other issue
C6_OneIssuePerMissingField ==
    (v_pc \in {"done", "crashed"} /\ Exists(v_data)) =>
        /\ Range(missing_fields) = ExpectedIssues(v_data.links)
        /\ Len(missing_fields) = Cardinality(ExpectedIssues(v_data.links))

\* C7: a validator run never halts before its final write
C7_NeverHalts == v_pc # "crashed"

AllGroupsEqual(nodes) ==
    \A j, k \in DOMAIN new_countries :
        CountryCount(nodes, new_countries[j]) = CountryCount(nodes, new_countries[k])

\* C8 as stated: equal node counts in all five groups make the ZAF check fail
C8_EqualCountsFail ==
    (zaf_report # "none" /\ AllGroupsEqual(v_data.nodes)) => zaf_report = "not_met"

\* C8: equal node counts of at least one node per group make the ZAF check fail
C8_EqualPositiveCountsFail ==
    (/\ zaf_report # "none"
     /\ AllGroupsEqual(v_data.nodes)
     /\ CountryCount(v_data.nodes, "ZAF") >= 1) => zaf_report = "not_met"

C8_Witness ==
    /\ zaf_report = "not_met"
    /\ AllGroupsEqual(v_data.nodes)
    /\ CountryCount(v_data.nodes, "ZAF") >= 1

\* C9: the write of a validator run that follows another run leaves the
\* document as the earlier run wrote it
C9_SecondRunWritesSameDocument ==
    [][(v_pc = "save" /\ v_pc' = "done" /\ v_run >= 2) => output_file' = output_file]_vars

\* a second run has written a document whose nodes have links
C9_Witness ==
    /\ v_run = 2
    /\ v_pc = "done"
    /\ \E i \in DOMAIN output_file.nodes : output_file.nodes[i].neighbor_count >= 2

(***************************************************************************)
(* Properties of the generator                                             *)
(***************************************************************************)
\* the (node id, interface name) pairs of a link list, in order: for each
\* link its source pair, then its target pair
Uses(links) ==
    [k \in 1..(2 * Len(links)) |->
        LET l == links[(k + 1) \div 2]
        IN  IF k % 2 = 1 THEN <<RefId(l.source), GetOr(l, "source_interface")>>
            ELSE <<RefId(l.target), GetOr(l, "target_interface")>>]

\* the highest interface index the links show for a node, 0 if none
MaxFound(links, id) ==
    SetMax({0} \cup {get_interface_index(u[2]) : u \in {x \in Range(Uses(links)) : x[1] = id}})

\* C2: the interface indices handed out to a node increase strictly, exceed
\* every index the existing links show for that node, and no generated
\* (node id, interface name) pair is one of an existing link
C2_FreshInterfaces ==
    LET handed == Uses(new_links)
    IN  \A a \in DOMAIN handed :
            /\ get_interface_index(handed[a][2]) > MaxFound(input_file.links, handed[a][1])
            /\ handed[a] \notin Range(Uses(input_file.links))
            /\ \A b \in DOMAIN handed :
                  (a < b /\ handed[a][1] = handed[b][1]) =>
                      get_interface_index(handed[a][2]) < get_interface_index(handed[b][2])

ConfigSum(config) == SeqSum([k \in DOMAIN countries_list |-> config[countries_list[k]]])

\* C3: the node list the generator writes has as many nodes as the existing
\* document plus the sum of the group counts after the adjustment
C3_NodeCount ==
    g_pc = "done" =>
        Len(output_file.nodes) = Len(input_file.nodes) + ConfigSum(new_countries_config)

\* a run that adjusted the configuration and wrote over an existing,
\* non-empty document
C3_Witness ==
    /\ g_pc = "done"
    /\ Len(input_file.nodes) >= 1
    /\ new_countries_config # SmallScenario.config
    /\ Len(output_file.nodes) = SmallScenario.target_total

\* C4: after the adjustment, ZAF's count is at least 1.4 times the count of
\* every other group
C4_ZafDominatesAfterAdjustment ==
    g_pc \in {"nodes", "ring"} =>
        \A k \in DOMAIN countries_list :
            countries_list[k] # "ZAF" =>
                10 * new_countries_config["ZAF"] >= 14 * new_countries_config[countries_list[k]]

\* the new links a step made for a group, in order
RECURSIVE LinksOf(_, _)
LinksOf(tag, i) ==
    IF i > Len(new_links) THEN <<>>
    ELSE (IF origin[i] = tag THEN <<new_links[i]>> ELSE <<>>) \o LinksOf(tag, i + 1)

\* the ring step of group k has run
RingDone(k) ==
    \/ g_pc \in {"inter", "bridge", "internal", "save", "done"}
    \/ g_pc = "chord" /\ k <= g_c
    \/ g_pc = "ring" /\ k < g_c

\* the node reached from start after j links of a ring
RECURSIVE Reach(_, _, _)
Reach(ring, start, j) ==
    IF j = 0 THEN start
    ELSE LET at == Reach(ring, start, j - 1)
             l == CHOOSE i \in DOMAIN ring : RefId(ring[i].source) = at
         IN  RefId(ring[l].target)

\* C5: the ring step of a group of n >= 2 nodes makes exactly n links, link i
\* from the i-th node to the ((i+1) mod n)-th, one cycle through all nodes of
\* the group with every node on at least 2 ring link ends; all ring steps
\* together make as many links as there are generated nodes
C5_Ring ==
    /\ \A k \in DOMAIN countries_list :
          LET c == countries_list[k]
              nodes == country_nodes[c]
              n == Len(nodes)
              ring == LinksOf(<<"ring", c>>, 1)
          IN  (RingDone(k) /\ n >= 2) =>
                  /\ Len(ring) = n
                  /\ \A i \in 1..n :
                        /\ RefId(ring[i].source) = nodes[i]
                        /\ RefId(ring[i].target) = nodes[(i % n) + 1]
                        /\ EndpointCount(ring, nodes[i]) >= 2
                  /\ {Reach(ring, nodes[1], j) : j \in 0..(n - 1)} = Range(nodes)
                  /\ Cardinality(Range(nodes)) = n
                  /\ Reach(ring, nodes[1], n) = nodes[1]
    /\ RingDone(Len(countries_list)) =>
          Cardinality({i \in DOMAIN origin : origin[i][1] = "ring"}) = Len(new_nodes)

\* the rings of a group of 3 and a group of 2 are made: 5 ring links
C5_Witness ==
    /\ g_pc = "chord" /\ g_c = 2 /\ g_i = 0
    /\ Len(country_nodes["ZAF"]) = 3
    /\ Len(country_nodes["LSO"]) = 2
    /\ Len(LinksOf(<<"ring", "ZAF">>, 1)) + Len(LinksOf(<<"ring", "LSO">>, 1)) = 5

UniqueIds(nodes) == Cardinality(NodeIds(nodes)) = Len(nodes)

\* C10 as stated: the written node ids are unique whenever the existing ids are
C10_UniqueIds ==
    (g_pc = "done" /\ UniqueIds(input_file.nodes)) => UniqueIds(output_file.nodes)

\* C10: the written node ids are unique whenever the existing ids are unique
\* and none of them is the id of a generated node
C10_UniqueIdsWithoutClash ==
    (/\ g_pc = "done"
     /\ UniqueIds(input_file.nodes)
     /\ NodeIds(input_file.nodes) \cap NodeIds(new_nodes) = {}) => UniqueIds(output_file.nodes)

\* a run over a non-empty existing document without an id of a generated node
C10_Witness ==
    /\ g_pc = "done"
    /\ Len(input_file.nodes) >= 2
    /\ UniqueIds(input_file.nodes)
    /\ NodeIds(input_file.nodes) \cap NodeIds(new_nodes) = {}
    /\ Len(new_nodes) >= 11

\* C11: the written document keeps the existing nodes and links as unchanged
\* prefixes, followed by the generated nodes and links in generation order,
\* and its node_count and edge_count are the lengths of the two sequences
C11_ExistingFirstAndCounts ==
    g_pc = "done" =>
        LET en == Len(input_file.nodes)
            el == Len(input_file.links)
        IN  /\ Len(output_file.nodes) = en + Len(new_nodes)
            /\ Len(output_file.links) = el + Len(new_links)
            /\ SubSeq(output_file.nodes, 1, en) = input_file.nodes
            /\ SubSeq(output_file.links, 1, el) = input_file.links
            /\ SubSeq(output_file.nodes, en + 1, Len(output_file.nodes)) = new_nodes
            /\ SubSeq(output_file.links, el + 1, Len(output_file.links)) = new_links
            /\ output_file.metadata.node_count = Len(output_file.nodes)
            /\ output_file.metadata.edge_count = Len(output_file.links)

\* a write over existing nodes that carry a neighbor_count and existing links
\* of which one lacks fields
C11_Witness ==
    /\ g_pc = "done"
    /\ Len(input_file.nodes) >= 2
    /\ \E i \in DOMAIN input_file.nodes : "neighbor_count" \in DOMAIN input_file.nodes[i]
    /\ \E i \in DOMAIN input_file.links : "status" \notin DOMAIN input_file.links[i]
    /\ Len(new_links) > Len(new_nodes)

\* the cross-link loop of group k has run to its end
ChordDone(k) ==
    \/ g_pc \in {"inter", "bridge", "internal", "save", "done"}
    \/ g_pc \in {"ring", "chord"} /\ k < g_c

\* every link of the list joins two different nodes of the group
WithinGroup(links, nodes) ==
    \A i \in DOMAIN links :
        /\ RefId(links[i].source) \in Range(nodes)
        /\ RefId(links[i].target) \in Range(nodes)
        /\ RefId(links[i].source) # RefId(links[i].target)

NextGroup(k) == countries_list[(k % Len(countries_list)) + 1]

\* the inter-group iteration of pair k has run
InterDone(k) ==
    \/ g_pc \in {"bridge", "internal", "save", "done"}
    \/ g_pc = "inter" /\ k < g_c

\* the run ended in random.sample: the nodes exist, no group is empty (an
\* empty group ends the run in the cross-link loop), and the run is over
InterCrashed ==
    /\ g_pc = "crashed"
    /\ DOMAIN country_nodes # {}
    /\ \A c \in DOMAIN country_nodes : country_nodes[c] # <<>>

\* the two links of pair k: from 2 different nodes of group k to 2 different
\* nodes of the next group
TwoLinksOfPair(k) ==
    LET c1 == countries_list[k]
        inter == LinksOf(<<"inter", c1>>, 1)
    IN  /\ Len(inter) = 2
        /\ \A i \in DOMAIN inter :
              /\ RefId(inter[i].source) \in Range(country_nodes[c1])
              /\ RefId(inter[i].target) \in Range(country_nodes[NextGroup(k)])
        /\ RefId(inter[1].source) # RefId(inter[2].source)
        /\ RefId(inter[1].target) # RefId(inter[2].target)

\* every inter-group link goes from a group to the next group of the cycle
OnlyAdjacentGroups ==
    \A i \in DOMAIN new_links :
        origin[i][1] = "inter" =>
            \E k \in DOMAIN countries_list :
                /\ RefId(new_links[i].source) \in Range(country_nodes[countries_list[k]])
                /\ RefId(new_links[i].target) \in Range(country_nodes[NextGroup(k)])

FromGenerator(doc) == Exists(doc) /\ doc.metadata.description = "expanded"

NoSingleNodeGroup == \A c \in DOMAIN country_nodes : Len(country_nodes[c]) # 1

\* C14: without a single-node group, once the rings are made every generated
\* node is an end of a generated link, and a validator run over the
\* generator's output counts at least 2 link ends for every generated node
\* and lists none of them as isolated
C14_NoGeneratedNodeIsolated ==
    /\ (RingDone(Len(countries_list)) /\ NoSingleNodeGroup) =>
          \A id \in NodeIds(new_nodes) : EndpointCount(new_links, id) >= 1
    /\ (v_pc \in {"check", "stats", "save", "done"} /\ FromGenerator(v_data)
            /\ NoSingleNodeGroup) =>
          \A id \in NodeIds(new_nodes) :
              /\ id \in DOMAIN neighbor_counts
              /\ neighbor_counts[id] >= 2
              /\ id \notin Range(isolated)
              /\ \A i \in DOMAIN v_data.nodes :
                    v_data.nodes[i].id = id => v_data.nodes[i].neighbor_count >= 2

\* a validator run over the generator's output has finished
C14_Witness ==
    /\ v_pc = "done"
    /\ FromGenerator(v_data)
    /\ output_file = v_data
    /\ Len(new_nodes) >= 11
    /\ \A id \in NodeIds(new_nodes) : neighbor_counts[id] >= 2

\* every neighbor_count of the document is the number of link ends that name
\* its node
CountsCurrent(doc) ==
    \A i \in DOMAIN doc.nodes :
        "neighbor_count" \in DOMAIN doc.nodes[i] =>
            doc.nodes[i].neighbor_count = EndpointCount(doc.links, doc.nodes[i].id)

\* C15 as stated: in every state of the documents, a neighbor_count is the
\* number of link ends that name its node
C15_CountsAlwaysCurrent ==
    /\ Exists(input_file) => CountsCurrent(input_file)
    /\ Exists(output_file) => CountsCurrent(output_file)

\* C15: a document as a validator run wrote it has a current neighbor_count on
\* every node; a document as the generator wrote it has no neighbor_count on
\* the generated nodes and, on the existing nodes, the neighbor_count of the
\* input document, which counts the existing links only
C15_CountsCurrentAfterValidation ==
    /\ (v_pc = "done" /\ output_file = v_data) =>
          /\ CountsCurrent(output_file)
          /\ \A i \in DOMAIN output_file.nodes :
                "neighbor_count" \in DOMAIN output_file.nodes[i]
    /\ (g_pc = "done" /\ output_file = g_data) =>
          \A i \in DOMAIN output_file.nodes :
              IF i <= Len(input_file.nodes)
              THEN /\ output_file.nodes[i] = input_file.nodes[i]
                   /\ "neighbor_count" \in DOMAIN output_file.nodes[i] =>
                         output_file.nodes[i].neighbor_count
                             = EndpointCount(input_file.links, output_file.nodes[i].id)
              ELSE "neighbor_count" \notin DOMAIN output_file.nodes[i]

\* a validator run has replaced the count that the generator's output carried
\* for an existing node with a bridge link
C15_Witness ==
    /\ v_pc = "done"
    /\ output_file = v_data
    /\ FromGenerator(v_data)
    /\ \E i \in DOMAIN input_file.nodes :
          /\ "neighbor_count" \in DOMAIN input_file.nodes[i]
          /\ output_file.nodes[i].id = input_file.nodes[i].id
          /\ output_file.nodes[i].neighbor_count > input_file.nodes[i].neighbor_count

\* the nodes without their neighbor_count
Bare(nodes) == [i \in DOMAIN nodes |-> Without(nodes[i], {"neighbor_count"})]

\* the file holds the old document, annotated, and nothing of the generator
GeneratorOutputLost(doc) ==
    /\ doc.links = OldOutput.links
    /\ doc.metadata = OldOutput.metadata
    /\ Bare(doc.nodes) = Bare(OldOutput.nodes)
    /\ NodeIds(doc.nodes) \cap NodeIds(new_nodes) = {}
    /\ \A i \in DOMAIN doc.nodes : "neighbor_count" \in DOMAIN doc.nodes[i]

\* the file holds the generator's document, annotated
GeneratorOutputKept(doc) ==
    /\ doc.links = g_data.links
    /\ doc.metadata = g_data.metadata
    /\ Bare(doc.nodes) = Bare(g_data.nodes)
    /\ NodeIds(new_nodes) \subseteq NodeIds(doc.nodes)

\* C16: a validator that writes after the generator's write leaves the old
\* document without the generator's nodes and links if it read the file
\* before that write, and the generator's document if it read the file
\* after it
C16_ValidatorWriteAfterGenerator ==
    [][(v_pc = "save" /\ v_pc' = "done" /\ g_pc = "done" /\ output_file = g_data) =>
          IF FromGenerator(v_data)
          THEN GeneratorOutputKept(output_file')
          ELSE GeneratorOutputLost(output_file')]_vars

\* the race has happened: the generator has written, and the file holds what
\* a validator that had read the old document wrote afterwards
C16_Witness ==
    /\ g_pc = "done"
    /\ v_pc = "done"
    /\ output_file = v_data
    /\ ~FromGenerator(v_data)
    /\ GeneratorOutputLost(output_file)
    /\ Len(new_nodes) >= 11

(***************************************************************************)
(* The validator's frame                                                   *)
(***************************************************************************)
\* two documents that differ at most in the neighbor_count of their nodes
SameButNeighborCount(before, after) ==
    /\ after.links = before.links
    /\ after.metadata = before.metadata
    /\ DOMAIN after = DOMAIN before
    /\ Len(after.nodes) = Len(before.nodes)
    /\ \A i \in DOMAIN before.nodes :
          /\ Without(after.nodes[i], {"neighbor_count"})
                = Without(before.nodes[i], {"neighbor_count"})
          /\ DOMAIN before.nodes[i] \subseteq DOMAIN after.nodes[i]

\* C17: no step of a validator run changes anything in the persisted
\* document except the neighbor_count of its nodes: links, metadata, node
\* order and every other node field stay as they were
C17_OnlyNeighborCountChanges ==
    [][IF Exists(output_file)
       THEN Exists(output_file') /\ SameButNeighborCount(output_file, output_file')
       ELSE output_file' = output_file]_vars

\* a run has saved a document with nodes, a complete link and a link that
\* lacks fields, and has changed a stored neighbor_count
C17_Witness ==
    /\ v_pc = "done"
    /\ v_run = 1
    /\ Len(output_file.nodes) >= 2
    /\ \E i \in DOMAIN output_file.links : Range(required) \subseteq DOMAIN output_file.links[i]
    /\ \E i \in DOMAIN output_file.links : "status" \notin DOMAIN output_file.links[i]
    /\ \E i \in DOMAIN output_file.nodes :
          /\ output_file.nodes[i].id = "lso-r1"
          /\ output_file.nodes[i].neighbor_count # 7

====
